---- MODULE Spec2Model ----
(***************************************************************************)
(* Model of src/utils/config.ts: the loading, default-merging, validation  *)
(* and saving of the gluon.json configuration file.                        *)
(*                                                                         *)
(* JavaScript values are records [t, s, m]: t is the type tag, s the       *)
(* payload of a string, boolean or number, m the ordered own properties of *)
(* an object or array (an array is an object whose keys are "0", "1", ...).*)
(* A text (the content of gluon.json, the override string) is a sequence   *)
(* of tokens [q, s]: q marks a quoted JSON string, the other tokens are    *)
(* punctuation, literals and the white space characters " " and "\n".      *)
(***************************************************************************)
EXTENDS Naturals, Sequences, FiniteSets, TLC

VARIABLES pc, file, mockConfig, hasWarnedAboutConfig, config,
          op, prevOp, outcome, retRaw, retConfig, diag, storeChecked,
          resolutions, warnings, everOverride

vars == <<pc, file, mockConfig, hasWarnedAboutConfig, config,
          op, prevOp, outcome, retRaw, retConfig, diag, storeChecked,
          resolutions, warnings, everOverride>>

----------------------------------------------------------------------------
(* Bounds of the model. *)

\* Largest number of entries of `addons` in an enumerated document.
MaxAddons == 2

\* The counter of resolutions saturates here.
MaxCount == 2

----------------------------------------------------------------------------
(* JavaScript values. *)

Undef == [t |-> "undef", s |-> "", m |-> <<>>]

Null == [t |-> "null", s |-> "", m |-> <<>>]

Str(x) == [t |-> "str", s |-> x, m |-> <<>>]

Bool(b) == [t |-> "bool", s |-> IF b THEN "true" ELSE "false", m |-> <<>>]

\* The numbers of the model: 0, 1 and Infinity.
Num(x) == [t |-> "num", s |-> x, m |-> <<>>]

Obj(members) == [t |-> "obj", s |-> "", m |-> members]

Prop(key, val) == [k |-> key, v |-> val]

\* The canonical array indices, in ascending numeric order.
IndexKeys == <<"0", "1", "2", "3">>

IsIndexKey(key) == \E i \in 1..Len(IndexKeys) : IndexKeys[i] = key

IndexOf(key) == CHOOSE i \in 1..Len(IndexKeys) : IndexKeys[i] = key

Arr(elems) ==
    [t |-> "arr", s |-> "",
     m |-> [i \in 1..Len(elems) |-> Prop(IndexKeys[i], elems[i])]]

\* The characters of the strings that the model spreads or enumerates.
Chars(x) ==
    CASE x = "" -> <<>>
      [] x = "ab" -> <<"a", "b">>

\* The own enumerable properties of a value, in property order.
Members(v) ==
    CASE v.t \in {"obj", "arr"} -> v.m
      [] v.t = "str" ->
            [i \in 1..Len(Chars(v.s)) |-> Prop(IndexKeys[i], Str(Chars(v.s)[i]))]
      [] OTHER -> <<>>

OwnKeys(v) == [i \in 1..Len(Members(v)) |-> Members(v)[i].k]

\* The only own properties of a string that the model reads are its indices.
HasOwn(v, key) ==
    IF v.t = "str" /\ ~IsIndexKey(key) THEN FALSE
    ELSE \E i \in 1..Len(Members(v)) : Members(v)[i].k = key

\* v[key] for a v that is neither null nor undefined.
Get(v, key) ==
    IF HasOwn(v, key)
    THEN Members(v)[CHOOSE i \in 1..Len(Members(v)) : Members(v)[i].k = key].v
    ELSE Undef

Nullish(v) == v.t \in {"null", "undef"}

\* !v
Falsy(v) ==
    \/ v.t \in {"null", "undef"}
    \/ v.t = "bool" /\ v.s = "false"
    \/ v.t = "str" /\ v.s = ""
    \/ v.t = "num" /\ v.s = "0"

\* v == 'x' for a string literal x (v is a string, a boolean, a number, null,
\* undefined or an object here; only a string equals a non-numeric string).
LooseEqStr(v, x) == v.t = "str" /\ v.s = x

\* `${v}`
Template(v) ==
    CASE v.t = "str" -> v.s
      [] v.t = "bool" -> v.s
      [] v.t = "num" -> v.s
      [] v.t = "null" -> "null"
      [] v.t = "undef" -> "undefined"
      [] v.t = "obj" -> "[object Object]"
      [] v.t = "arr" -> "[array]"

\* Defining property `key` on the property list ms: an existing key keeps its
\* place, a new index key goes among the index keys in ascending order, any
\* other new key goes last.
DefineProp(ms, key, val) ==
    IF \E i \in 1..Len(ms) : ms[i].k = key
    THEN [i \in 1..Len(ms) |-> IF ms[i].k = key THEN Prop(key, val) ELSE ms[i]]
    ELSE IF IsIndexKey(key)
    THEN LET before == SelectSeq(ms, LAMBDA p :
                           IsIndexKey(p.k) /\ IndexOf(p.k) < IndexOf(key))
             after == SelectSeq(ms, LAMBDA p :
                           ~(IsIndexKey(p.k) /\ IndexOf(p.k) < IndexOf(key)))
         IN before \o <<Prop(key, val)>> \o after
    ELSE Append(ms, Prop(key, val))

RECURSIVE DefineAll(_, _, _)
DefineAll(ms, src, i) ==
    IF i > Len(src) THEN ms
    ELSE DefineAll(DefineProp(ms, src[i].k, src[i].v), src, i + 1)

\* { ...a, ...b }
Spread(a, b) == Obj(DefineAll(DefineAll(<<>>, Members(a), 1), Members(b), 1))

----------------------------------------------------------------------------
(* Texts, JSON.stringify(value, null, 2) and JSON.parse. *)

P(x) == [q |-> FALSE, s |-> x]

Q(x) == [q |-> TRUE, s |-> x]

\* The third argument of JSON.stringify.
Indent == 2

RECURSIVE Spaces(_)
Spaces(n) == IF n = 0 THEN <<>> ELSE <<P(" ")>> \o Spaces(n - 1)

NewLine(depth) == <<P("\n")>> \o Spaces(Indent * depth)

\* The JSON text of a number: a non-finite number is written as null.
NumberText(x) == IF x = "Infinity" THEN "null" ELSE x

\* The number literals of the model and the doubles they denote: 1e999 is
\* beyond the range of a double and denotes Infinity.
NumberLiterals == {"0", "1", "1e999"}

NumberValue(literal) == IF literal = "1e999" THEN "Infinity" ELSE literal

RECURSIVE Ser(_, _)
RECURSIVE SerProps(_, _, _, _)
\* The properties i.. of an object (withKeys) or array at nesting `depth`.
SerProps(ms, i, depth, withKeys) ==
    IF i > Len(ms) THEN <<>>
    ELSE (IF i > 1 THEN <<P(",")>> ELSE <<>>)
         \o NewLine(depth + 1)
         \o (IF withKeys THEN <<Q(ms[i].k), P(":"), P(" ")>> ELSE <<>>)
         \o Ser(ms[i].v, depth + 1)
         \o SerProps(ms, i + 1, depth, withKeys)

Ser(v, depth) ==
    CASE v.t = "str" -> <<Q(v.s)>>
      [] v.t = "bool" -> <<P(v.s)>>
      [] v.t = "num" -> <<P(NumberText(v.s))>>
      [] v.t = "null" -> <<P("null")>>
      [] v.t = "obj" ->
            IF v.m = <<>> THEN <<P("{"), P("}")>>
            ELSE <<P("{")>> \o SerProps(v.m, 1, depth, TRUE)
                 \o NewLine(depth) \o <<P("}")>>
      [] v.t = "arr" ->
            IF v.m = <<>> THEN <<P("["), P("]")>>
            ELSE <<P("[")>> \o SerProps(v.m, 1, depth, FALSE)
                 \o NewLine(depth) \o <<P("]")>>

\* The text of v without white space, the form of the documents that the
\* model enumerates as the content of gluon.json.
RECURSIVE Compact(_)
RECURSIVE CompactProps(_, _, _)
CompactProps(ms, i, withKeys) ==
    IF i > Len(ms) THEN <<>>
    ELSE (IF i > 1 THEN <<P(",")>> ELSE <<>>)
         \o (IF withKeys THEN <<Q(ms[i].k), P(":")>> ELSE <<>>)
         \o Compact(ms[i].v)
         \o CompactProps(ms, i + 1, withKeys)

Compact(v) ==
    CASE v.t = "str" -> <<Q(v.s)>>
      [] v.t = "bool" -> <<P(v.s)>>
      [] v.t = "num" -> <<P(NumberText(v.s))>>
      [] v.t = "null" -> <<P("null")>>
      [] v.t = "obj" -> <<P("{")>> \o CompactProps(v.m, 1, TRUE) \o <<P("}")>>
      [] v.t = "arr" -> <<P("[")>> \o CompactProps(v.m, 1, FALSE) \o <<P("]")>>

\* JSON.stringify(v, null, 2)
JSONstringify(v) == Ser(v, 0)

IsWs(tok) == ~tok.q /\ tok.s \in {" ", "\n"}

IsPunct(toks, i, x) == i \in 1..Len(toks) /\ ~toks[i].q /\ toks[i].s = x

RECURSIVE SkipWs(_, _)
SkipWs(toks, i) ==
    IF i <= Len(toks) /\ IsWs(toks[i]) THEN SkipWs(toks, i + 1) ELSE i

ParseFail == [ok |-> FALSE, v |-> Undef, i |-> 0]

ParseOk(val, next) == [ok |-> TRUE, v |-> val, i |-> next]

RECURSIVE ParseValue(_, _)
RECURSIVE ParseMember(_, _, _)
RECURSIVE ParseElem(_, _, _)

\* A member `"key": value` at i, then `,` and more members, or `}`.
ParseMember(toks, i, acc) ==
    LET j == SkipWs(toks, i)
        c == SkipWs(toks, j + 1)
    IN IF ~(j <= Len(toks) /\ toks[j].q /\ IsPunct(toks, c, ":")) THEN ParseFail
       ELSE LET r == ParseValue(toks, c + 1)
            IN IF ~r.ok THEN ParseFail
               ELSE LET e == SkipWs(toks, r.i)
                        acc2 == DefineProp(acc, toks[j].s, r.v)
                    IN IF IsPunct(toks, e, ",") THEN ParseMember(toks, e + 1, acc2)
                       ELSE IF IsPunct(toks, e, "}") THEN ParseOk(Obj(acc2), e + 1)
                       ELSE ParseFail

\* An element at i, then `,` and more elements, or `]`.
ParseElem(toks, i, acc) ==
    LET r == ParseValue(toks, i)
    IN IF ~r.ok THEN ParseFail
       ELSE LET e == SkipWs(toks, r.i)
                acc2 == Append(acc, r.v)
            IN IF IsPunct(toks, e, ",") THEN ParseElem(toks, e + 1, acc2)
               ELSE IF IsPunct(toks, e, "]") THEN ParseOk(Arr(acc2), e + 1)
               ELSE ParseFail

ParseValue(toks, i) ==
    LET j == SkipWs(toks, i)
    IN IF j > Len(toks) THEN ParseFail
       ELSE IF toks[j].q THEN ParseOk(Str(toks[j].s), j + 1)
       ELSE IF toks[j].s = "true" THEN ParseOk(Bool(TRUE), j + 1)
       ELSE IF toks[j].s = "false" THEN ParseOk(Bool(FALSE), j + 1)
       ELSE IF toks[j].s = "null" THEN ParseOk(Null, j + 1)
       ELSE IF toks[j].s \in NumberLiterals
       THEN ParseOk(Num(NumberValue(toks[j].s)), j + 1)
       ELSE IF toks[j].s = "{"
       THEN IF IsPunct(toks, SkipWs(toks, j + 1), "}")
            THEN ParseOk(Obj(<<>>), SkipWs(toks, j + 1) + 1)
            ELSE ParseMember(toks, j + 1, <<>>)
       ELSE IF toks[j].s = "["
       THEN IF IsPunct(toks, SkipWs(toks, j + 1), "]")
            THEN ParseOk(Arr(<<>>), SkipWs(toks, j + 1) + 1)
            ELSE ParseElem(toks, j + 1, <<>>)
       ELSE ParseFail

\* JSON.parse(text): ok is FALSE where JSON.parse throws a SyntaxError.
JSONparse(toks) ==
    LET r == ParseValue(toks, 1)
    IN IF r.ok /\ SkipWs(toks, r.i) = Len(toks) + 1
       THEN [ok |-> TRUE, v |-> r.v]
       ELSE [ok |-> FALSE, v |-> Undef]

----------------------------------------------------------------------------
(* The program's constants. *)

validProducts ==
    {"firefox", "firefox-esr", "firefox-dev", "firefox-beta", "firefox-nightly"}

defaultLicenseConfig ==
    Obj(<<Prop("ignoredFiles", Arr(<<Str(".*\\.json")>>)),
          Prop("licenseType", Str("MPL-2.0"))>>)

defaultConfig ==
    Obj(<<Prop("name", Str("Unknown gluon build")),
          Prop("vendor", Str("Unknown")),
          Prop("appId", Str("unknown.appid")),
          Prop("binaryName", Str("firefox")),
          Prop("version", Obj(<<Prop("product", Str("firefox"))>>)),
          Prop("buildOptions",
               Obj(<<Prop("generateBranding", Bool(TRUE)),
                     Prop("windowsUseSymbolicLinks", Bool(FALSE))>>)),
          Prop("addons", Obj(<<>>)),
          Prop("brands", Obj(<<>>)),
          Prop("license", defaultLicenseConfig)>>)

\* The backing file gluon.json: whether it exists, and its content.
NoFile == [exists |-> FALSE, text |-> <<>>]

FileOf(text) == [exists |-> TRUE, text |-> text]

\* The empty string: no override.
NoMock == <<>>

\* The text '{}'.
EmptyObjectText == <<P("{"), P("}")>>

----------------------------------------------------------------------------
(* Diagnostics: the calls of ../log. *)

Msg(sev, kind, arg) == [sev |-> sev, kind |-> kind, arg |-> arg]

\* log.warning(...): prints and returns.
LogWarning(d, kind, arg) == Append(d, Msg("warning", kind, arg))

\* log.error(...): prints and returns.
LogError(d, kind, arg) == Append(d, Msg("error", kind, arg))

----------------------------------------------------------------------------
(* rawConfig() *)

hasConfig(f) == f.exists

\* rawConfig without the assignment to hasWarnedAboutConfig.
rawConfigKeepsWarning(mock, f, warned) ==
    IF mock # NoMock
    THEN [contents |-> mock, warned |-> warned, diag |-> <<>>, checked |-> FALSE]
    ELSE IF hasConfig(f)
    THEN [contents |-> f.text, warned |-> warned, diag |-> <<>>, checked |-> TRUE]
    ELSE [contents |-> EmptyObjectText, warned |-> warned,
          diag |-> IF warned THEN <<>> ELSE LogWarning(<<>>, "configNotFound", ""),
          checked |-> TRUE]

\* rawConfig that looks at the backing file before the override.
rawConfigFileFirst(mock, f, warned) ==
    IF hasConfig(f)
    THEN [contents |-> f.text, warned |-> warned, diag |-> <<>>, checked |-> TRUE]
    ELSE IF mock # NoMock
    THEN [contents |-> mock, warned |-> warned, diag |-> <<>>, checked |-> TRUE]
    ELSE [contents |-> EmptyObjectText, warned |-> TRUE,
          diag |-> IF warned THEN <<>> ELSE LogWarning(<<>>, "configNotFound", ""),
          checked |-> TRUE]

\* The text returned, the new value of hasWarnedAboutConfig, the diagnostics
\* emitted, and whether hasConfig() was called.
rawConfig(mock, f, warned) ==
    IF mock # NoMock
    THEN [contents |-> mock, warned |-> warned, diag |-> <<>>, checked |-> FALSE]
    ELSE IF hasConfig(f)
    THEN [contents |-> f.text, warned |-> warned, diag |-> <<>>, checked |-> TRUE]
    ELSE [contents |-> EmptyObjectText, warned |-> TRUE,
          diag |-> IF warned THEN <<>> ELSE LogWarning(<<>>, "configNotFound", ""),
          checked |-> TRUE]

----------------------------------------------------------------------------
(* getConfig() *)

\* { ...fileParsed, ...defaultConfig }: the defaults win.
mergeDefaultsReversed(fileParsed) == Spread(fileParsed, defaultConfig)

\* fileParsed = { ...defaultConfig, ...fileParsed }
mergeDefaults(fileParsed) == Spread(defaultConfig, fileParsed)

\* The license left as merged at the top level.
mergeLicenseMissing(merged) == merged

\* fileParsed.license = { ...defaultLicenseConfig, ...fileParsed }
mergeLicenseWholeFile(merged) ==
    Obj(DefineProp(merged.m, "license", Spread(defaultLicenseConfig, merged)))

\* fileParsed.license = { ...defaultLicenseConfig, ...fileParsed.license }
mergeLicense(merged) ==
    Obj(DefineProp(merged.m, "license",
                   Spread(defaultLicenseConfig, Get(merged, "license"))))

\* validProducts.includes(product)
includesProduct(product) == product.t = "str" /\ product.s \in validProducts

\* The url branch without its `continue`.
addonErrorsUrlFallsThrough(addonKey, addon, d) ==
    LET d1 == IF Falsy(Get(addon, "id")) THEN LogError(d, "id", addonKey) ELSE d
        platform == Get(addon, "platform")
    IN IF LooseEqStr(platform, "url")
       THEN LogError(IF Falsy(Get(addon, "url")) THEN LogError(d1, "url", addonKey)
                     ELSE d1,
                     "unknownPlatform", Template(platform))
       ELSE IF LooseEqStr(platform, "amo")
       THEN LET d2 == IF Falsy(Get(addon, "amoId"))
                      THEN LogError(d1, "amoId", addonKey) ELSE d1
            IN IF Falsy(Get(addon, "version"))
               THEN LogError(d2, "version", addonKey) ELSE d2
       ELSE IF LooseEqStr(platform, "github")
       THEN LET d2 == IF Falsy(Get(addon, "repo"))
                      THEN LogError(d1, "repo", addonKey) ELSE d1
                d3 == IF Falsy(Get(addon, "version"))
                      THEN LogError(d2, "version", addonKey) ELSE d2
            IN IF Falsy(Get(addon, "fileGlob"))
               THEN LogError(d3, "fileGlob", addonKey) ELSE d3
       ELSE LogError(d1, "unknownPlatform", Template(platform))

\* The body of the addon loop for one addon that is neither null nor undefined.
addonErrors(addonKey, addon, d) ==
    LET d1 == IF Falsy(Get(addon, "id")) THEN LogError(d, "id", addonKey) ELSE d
        platform == Get(addon, "platform")
    IN IF LooseEqStr(platform, "url")
       THEN IF Falsy(Get(addon, "url")) THEN LogError(d1, "url", addonKey) ELSE d1
       ELSE IF LooseEqStr(platform, "amo")
       THEN LET d2 == IF Falsy(Get(addon, "amoId"))
                      THEN LogError(d1, "amoId", addonKey) ELSE d1
            IN IF Falsy(Get(addon, "version"))
               THEN LogError(d2, "version", addonKey) ELSE d2
       ELSE IF LooseEqStr(platform, "github")
       THEN LET d2 == IF Falsy(Get(addon, "repo"))
                      THEN LogError(d1, "repo", addonKey) ELSE d1
                d3 == IF Falsy(Get(addon, "version"))
                      THEN LogError(d2, "version", addonKey) ELSE d2
            IN IF Falsy(Get(addon, "fileGlob"))
               THEN LogError(d3, "fileGlob", addonKey) ELSE d3
       ELSE LogError(d1, "unknownPlatform", Template(platform))

\* for (const addonKey in addons), from the i-th key on. Reading a property of
\* an addon that is null throws a TypeError out of getConfig.
RECURSIVE validateAddons(_, _, _)
validateAddons(addons, i, d) ==
    IF i > Len(OwnKeys(addons)) THEN [threw |-> FALSE, diag |-> d]
    ELSE LET addonKey == OwnKeys(addons)[i]
             addon == Get(addons, addonKey)
         IN IF Nullish(addon) THEN [threw |-> TRUE, diag |-> d]
            ELSE validateAddons(addons, i + 1, addonErrors(addonKey, addon, d))

\* validate without the process.exit(1) after the product error.
validateNoExit(merged, d) ==
    IF Nullish(Get(merged, "version")) THEN [outcome |-> "throw", diag |-> d]
    ELSE LET product == Get(Get(merged, "version"), "product")
             d1 == IF includesProduct(product) THEN d
                   ELSE LogError(d, "product", Template(product))
             a == validateAddons(Get(merged, "addons"), 1, d1)
         IN [outcome |-> IF a.threw THEN "throw" ELSE "returned", diag |-> a.diag]

\* The config validation of getConfig: "exit1" is process.exit(1), "throw" an
\* uncaught TypeError, "returned" the return of the merged record.
validate(merged, d) ==
    IF Nullish(Get(merged, "version")) THEN [outcome |-> "throw", diag |-> d]
    ELSE LET product == Get(Get(merged, "version"), "product")
         IN IF ~includesProduct(product)
            THEN [outcome |-> "exit1",
                  diag |-> LogError(d, "product", Template(product))]
            ELSE LET a == validateAddons(Get(merged, "addons"), 1, d)
                 IN [outcome |-> IF a.threw THEN "throw" ELSE "returned",
                     diag |-> a.diag]

Result(outcome_, ret, d, raw) ==
    [outcome |-> outcome_, ret |-> ret, diag |-> d, warned |-> raw.warned,
     contents |-> raw.contents, checked |-> raw.checked]

getConfig(mock, f, warned) ==
    LET raw == rawConfig(mock, f, warned)
        parsed == JSONparse(raw.contents)
    IN IF ~parsed.ok
       THEN Result("exit1", Undef,
                   LogError(LogError(raw.diag, "parse", "configPath"),
                            "syntaxError", ""),
                   raw)
       ELSE IF Nullish(parsed.v)
       THEN Result("throw", Undef, raw.diag, raw)
       ELSE LET d1 == IF Falsy(Get(parsed.v, "binaryName"))
                      THEN LogWarning(raw.diag, "binaryName", "")
                      ELSE raw.diag
                merged == mergeLicense(mergeDefaults(parsed.v))
                val == validate(merged, d1)
            IN Result(val.outcome,
                      IF val.outcome = "returned" THEN merged ELSE Undef,
                      val.diag, raw)

----------------------------------------------------------------------------
(* The documents and texts the model enumerates. *)

\* The object of the properties whose value is given (Undef: property absent).
ObjOf(props) == Obj(SelectSeq(props, LAMBDA p : p.v # Undef))

AddonOf(platform, id, url, amoId, version, repo, fileGlob) ==
    ObjOf(<<Prop("platform", platform), Prop("id", id), Prop("url", url),
            Prop("amoId", amoId), Prop("version", version), Prop("repo", repo),
            Prop("fileGlob", fileGlob)>>)

Opt(x) == {Undef, Str(x)}

AddonFull(platform, id) ==
    AddonOf(platform, id, Str("https://x/a.xpi"), Str("12345"), Str("1.0"),
            Str("o/r"), Str("*.xpi"))

AddonVariants ==
    {AddonOf(Str("url"), Str("a@x"), u, Undef, v, Undef, Undef) :
        u \in Opt("https://x/a.xpi"), v \in Opt("1.0")}
    \cup {AddonOf(Str("amo"), Str("a@x"), Undef, a, v, Undef, Undef) :
        a \in Opt("12345"), v \in Opt("1.0")}
    \cup {AddonOf(Str("github"), Str("a@x"), Undef, Undef, v, r, g) :
        v \in Opt("1.0"), r \in Opt("o/r"), g \in Opt("*.xpi")}
    \cup {AddonFull(Str("url"), Undef),
          AddonFull(Str("amo"), Str("")),
          AddonFull(Str("ftp"), Str("a@x")),
          AddonOf(Undef, Undef, Undef, Undef, Undef, Undef, Undef),
          Null}

AddonKeys == <<"foo", "bar", "baz", "qux">>

\* The documents whose only key is `addons`, with up to MaxAddons entries.
DocsAddons ==
    {Obj(<<Prop("addons",
               Obj([i \in 1..Len(entries) |-> Prop(AddonKeys[i], entries[i])]))>>) :
        entries \in UNION {[1..n -> AddonVariants] : n \in 0..MaxAddons}}

DocsTop ==
    {ObjOf(<<Prop("name", n), Prop("binaryName", b), Prop("version", ver),
             Prop("license", lic), Prop("buildOptions", bo), Prop("addons", ad)>>) :
        n \in Opt("Zen"),
        b \in {Undef, Str(""), Str("zen")},
        ver \in {Undef, Null, Str("firefox"), Obj(<<>>),
                 Obj(<<Prop("product", Str("firefox-esr"))>>),
                 Obj(<<Prop("product", Str("firefox-nightly")),
                       Prop("version", Str("1.0"))>>),
                 Obj(<<Prop("product", Str("chrome"))>>),
                 Obj(<<Prop("product", Null)>>)},
        lic \in {Undef, Null, Str("ab"), Obj(<<>>),
                 Obj(<<Prop("licenseType", Str("unknown"))>>),
                 Obj(<<Prop("ignoredFiles", Arr(<<Str("a"), Str("b")>>))>>),
                 Obj(<<Prop("ignoredFiles", Arr(<<>>)),
                       Prop("licenseType", Str("unknown"))>>)},
        bo \in {Undef, Obj(<<Prop("generateBranding", Bool(FALSE))>>)},
        ad \in {Undef,
                Obj(<<Prop("foo", Obj(<<Prop("platform", Str("amo")),
                                        Prop("id", Str("x"))>>))>>)}}

\* JSON documents that are no object, and objects whose `addons`, addon,
\* `platform` or `brands` is of another type than the Config interface says.
DocsOther ==
    {Null, Bool(TRUE), Str("ab"), Str(""), Arr(<<Str("a")>>),
     Obj(<<Prop("addons", Null)>>),
     Obj(<<Prop("addons", Str("ab"))>>),
     Obj(<<Prop("addons", Obj(<<Prop("foo", Str("ab"))>>))>>),
     Obj(<<Prop("addons", Obj(<<Prop("foo", Bool(TRUE))>>))>>),
     Obj(<<Prop("addons",
                Obj(<<Prop("foo", Obj(<<Prop("platform", Bool(TRUE)),
                                        Prop("id", Str("a@x"))>>))>>))>>),
     Obj(<<Prop("updateHostname", Str("updates.example.org")),
           Prop("brands", Null)>>),
     Num("1"),
     Obj(<<Prop("name", Num("0")), Prop("binaryName", Num("1"))>>),
     Obj(<<Prop("version", Num("1")), Prop("license", Num("1"))>>),
     Obj(<<Prop("addons",
                Obj(<<Prop("foo", Obj(<<Prop("platform", Str("url")),
                                        Prop("id", Num("0")),
                                        Prop("url", Num("1"))>>))>>))>>)}

\* Texts written by hand: not JSON, duplicate keys, index keys out of order,
\* keys in another order than the Config interface, white space, numbers
\* beyond the range of a double.
HandTexts ==
    {<<>>,
     <<P("{")>>,
     <<P("{"), Q("name"), P("}")>>,
     <<P("{"), Q("name"), P(":"), Q("Zen"), P(","), P("}")>>,
     <<P("{"), P("}"), P("}")>>,
     <<P("undefined")>>,
     <<P("["), Q("a"), P(",")>>,
     <<P("{"), Q("name"), P(":"), Q("a"), P(","),
       Q("name"), P(":"), Q("Zen"), P("}")>>,
     <<P("\n"), P("{"), P(" "), Q("zeta"), P(":"), Q("z"), P(","),
       Q("1"), P(":"), Q("one"), P(","), P("\n"),
       Q("0"), P(":"), Q("zero"), P(" "), P("}"), P("\n")>>,
     <<P("{"), Q("license"), P(":"), P("{"), Q("licenseType"), P(":"),
       Q("unknown"), P("}"), P(","), Q("brands"), P(":"), P("{"), P("}"),
       P(","), Q("name"), P(":"), Q("Zen"), P("}")>>,
     <<P("{"), Q("name"), P(":"), P("1e999"), P("}")>>,
     <<P("{"), Q("brands"), P(":"), P("{"), Q("zen"), P(":"), P("{"),
       Q("release"), P(":"), P("["), P("1"), P(","), P("1e999"), P("]"),
       P("}"), P("}"), P("}")>>,
     <<P("{"), Q("addons"), P(":"), P("{"),
       Q("zeta"), P(":"), P("{"), Q("platform"), P(":"), Q("url"), P("}"), P(","),
       Q("1"), P(":"), P("{"), Q("platform"), P(":"), Q("amo"), P("}"), P(","),
       Q("0"), P(":"), P("{"), Q("id"), P(":"), Q("a@x"), P("}"),
       P("}"), P("}")>>}

InputTexts ==
    {Compact(d) : d \in DocsTop \cup DocsAddons \cup DocsOther}
    \cup {JSONstringify(defaultConfig)} \cup HandTexts

\* The few texts of the process-level specification.
ProcDocs ==
    {Obj(<<>>),
     Obj(<<Prop("addons", Obj(<<Prop("foo", Null)>>))>>),
     Obj(<<Prop("buildOptions", Obj(<<Prop("generateBranding", Bool(FALSE))>>)),
           Prop("updateHostname", Str("updates.example.org")),
           Prop("version", Obj(<<Prop("product", Str("firefox-esr")),
                                 Prop("version", Str("1.0"))>>))>>),
     Obj(<<Prop("name", Str("Zen")), Prop("binaryName", Str("zen"))>>),
     Obj(<<Prop("version", Obj(<<Prop("product", Str("chrome"))>>))>>),
     Obj(<<Prop("license", Obj(<<Prop("licenseType", Str("unknown"))>>)),
           Prop("addons",
                Obj(<<Prop("foo", Obj(<<Prop("platform", Str("amo")),
                                        Prop("id", Str("x"))>>))>>))>>)}

ProcTexts ==
    {Compact(d) : d \in ProcDocs}
    \cup {<<P("{")>>, <<P("{"), Q("name"), P(":"), P("1e999"), P("}")>>}

MockTexts ==
    {Compact(Obj(<<Prop("name", Str("Mock"))>>)),
     Compact(Obj(<<Prop("version",
                        Obj(<<Prop("product", Str("firefox-dev"))>>))>>))}

----------------------------------------------------------------------------
(* The process: module load, the exported functions, and the environment's *)
(* changes to gluon.json.                                                  *)

Calls == {"load", "getConfig", "rawConfig"}

Bump(n) == IF n < MaxCount THEN n + 1 ELSE n

CountWarnings(d) ==
    Len(SelectSeq(d, LAMBDA msg : msg.sev = "warning" /\ msg.kind = "configNotFound"))

InitWith(texts) ==
    /\ pc = "start"
    /\ file \in {FileOf(t) : t \in texts} \cup {NoFile}
    /\ mockConfig = NoMock
    /\ hasWarnedAboutConfig = FALSE
    /\ config = Undef
    /\ op = "none"
    /\ prevOp = "none"
    /\ outcome = "none"
    /\ retRaw = <<>>
    /\ retConfig = Undef
    /\ diag = <<>>
    /\ storeChecked = FALSE
    /\ resolutions = 0
    /\ warnings = 0
    /\ everOverride = FALSE

Init == InitWith(ProcTexts)

InitResolve == InitWith(InputTexts)

\* What a call of getConfig() leaves behind, r being its result.
Observe(name, r) ==
    /\ op' = name
    /\ prevOp' = op
    /\ outcome' = r.outcome
    /\ retRaw' = r.contents
    /\ retConfig' = r.ret
    /\ diag' = r.diag
    /\ storeChecked' = r.checked
    /\ hasWarnedAboutConfig' = r.warned
    /\ warnings' = IF CountWarnings(r.diag) > 0 THEN Bump(warnings) ELSE warnings

\* export const config = getConfig(): an exit or an uncaught TypeError ends
\* the process before the module is loaded.
ModuleLoad ==
    /\ pc = "start"
    /\ LET r == getConfig(mockConfig, file, hasWarnedAboutConfig)
       IN /\ Observe("load", r)
          /\ pc' = IF r.outcome = "returned" THEN "running" ELSE "exited"
          /\ config' = r.ret
    /\ resolutions' = Bump(resolutions)
    /\ UNCHANGED <<file, mockConfig, everOverride>>

\* getConfig() answered from the module-level `config`.
GetConfigCached ==
    /\ pc = "running"
    /\ op' = "getConfig"
    /\ prevOp' = op
    /\ outcome' = "returned"
    /\ retRaw' = <<>>
    /\ retConfig' = config
    /\ diag' = <<>>
    /\ storeChecked' = FALSE
    /\ UNCHANGED <<pc, file, mockConfig, hasWarnedAboutConfig, config,
                   resolutions, warnings, everOverride>>

\* A call of getConfig() by an importer; a TypeError is left to the caller.
GetConfig ==
    /\ pc = "running"
    /\ LET r == getConfig(mockConfig, file, hasWarnedAboutConfig)
       IN /\ Observe("getConfig", r)
          /\ pc' = IF r.outcome = "exit1" THEN "exited" ELSE "running"
    /\ resolutions' = Bump(resolutions)
    /\ UNCHANGED <<file, mockConfig, config, everOverride>>

\* A call of rawConfig() by an importer.
RawConfig ==
    /\ pc = "running"
    /\ LET raw == rawConfig(mockConfig, file, hasWarnedAboutConfig)
       IN Observe("rawConfig", Result("returned", Undef, raw.diag, raw))
    /\ UNCHANGED <<pc, file, mockConfig, config, resolutions, everOverride>>

\* saveConfig() writing the Config that getConfig() returned last.
SaveConfigLast ==
    /\ pc = "running"
    /\ file' = FileOf(JSONstringify(IF retConfig = Undef THEN config ELSE retConfig))
    /\ op' = "saveConfig"
    /\ prevOp' = op
    /\ UNCHANGED <<pc, mockConfig, hasWarnedAboutConfig, config, outcome, retRaw,
                   retConfig, diag, storeChecked, resolutions, warnings,
                   everOverride>>

\* writeFileSync(configPath, JSON.stringify(config, null, 2))
SaveConfig ==
    /\ pc = "running"
    /\ file' = FileOf(JSONstringify(config))
    /\ op' = "saveConfig"
    /\ prevOp' = op
    /\ UNCHANGED <<pc, mockConfig, hasWarnedAboutConfig, config, outcome, retRaw,
                   retConfig, diag, storeChecked, resolutions, warnings,
                   everOverride>>

Idle ==
    /\ outcome' = "none"
    /\ retRaw' = <<>>
    /\ retConfig' = Undef
    /\ diag' = <<>>
    /\ storeChecked' = FALSE

SetMockRawConfig(text) ==
    /\ pc = "running"
    /\ mockConfig' = text
    /\ everOverride' = (everOverride \/ text # NoMock)
    /\ op' = "setMockRawConfig"
    /\ prevOp' = op
    /\ Idle
    /\ UNCHANGED <<pc, file, hasWarnedAboutConfig, config, resolutions, warnings>>

\* The environment writes gluon.json.
WriteFile(text) ==
    /\ pc = "running"
    /\ file' = FileOf(text)
    /\ op' = "writeFile"
    /\ prevOp' = op
    /\ Idle
    /\ UNCHANGED <<pc, mockConfig, hasWarnedAboutConfig, config, resolutions,
                   warnings, everOverride>>

\* The environment deletes gluon.json.
DeleteFile ==
    /\ pc = "running"
    /\ file' = NoFile
    /\ op' = "deleteFile"
    /\ prevOp' = op
    /\ Idle
    /\ UNCHANGED <<pc, mockConfig, hasWarnedAboutConfig, config, resolutions,
                   warnings, everOverride>>

Next ==
    \/ ModuleLoad
    \/ GetConfig
    \/ RawConfig
    \/ SaveConfig
    \/ \E text \in MockTexts \cup {NoMock} : SetMockRawConfig(text)
    \/ \E text \in ProcTexts : WriteFile(text)
    \/ DeleteFile

Spec == Init /\ [][Next]_vars

\* One resolution of each enumerated text, its save and its second resolution.
SaveResolved == op = "load" /\ SaveConfig

ResolveSaved == op = "saveConfig" /\ GetConfig

NextResolve ==
    \/ ModuleLoad
    \/ SaveResolved
    \/ ResolveSaved

SpecResolve == InitResolve /\ [][NextResolve]_vars

----------------------------------------------------------------------------
(* Properties of the process: specification Spec. *)

\* The text that a call of rawConfig() reads in the current state.
SourceText ==
    IF mockConfig # NoMock THEN mockConfig
    ELSE IF file.exists THEN file.text
    ELSE EmptyObjectText

\* C1, as claimed: getConfig() is memoized. Resolution is performed exactly
\* once in the process, and every later getConfig() call returns the cached
\* record without reading the override or the backing file again.
C1_GetConfigMemoized ==
    /\ resolutions <= 1
    /\ op = "getConfig" => (outcome = "returned" /\ retConfig = config
                            /\ ~storeChecked /\ retRaw = <<>>)

\* C1, amended: the memoized value is the exported `config`. It is assigned
\* once, by the resolution at module load, and never changes afterwards;
\* getConfig() is not memoized: every call reads the override or else the
\* backing file again and performs one more resolution.
C1_ConfigCachedGetConfigResolves ==
    [][/\ pc = "running" => config' = config
       /\ op' = "load" => (resolutions' = 1 /\ config' = retConfig')
       /\ op' = "getConfig" =>
            /\ resolutions' = IF resolutions < MaxCount THEN resolutions + 1
                              ELSE resolutions
            /\ retRaw' = SourceText
            /\ storeChecked' = (mockConfig = NoMock)]_vars

\* A getConfig() call after module load that returned a Config other than
\* the cached one.
C1_Witness ==
    /\ op = "getConfig"
    /\ outcome = "returned"
    /\ resolutions >= 2
    /\ retConfig # config

\* No number of v is Infinity.
RECURSIVE AllFinite(_)
AllFinite(v) ==
    /\ v.t = "num" => v.s # "Infinity"
    /\ \A i \in 1..Len(v.m) : AllFinite(v.m[i].v)

\* C4, as claimed: round trip. With no override set, saveConfig() followed
\* by getConfig() returns a Config equal to the result of the first
\* resolution, the cached `config` that saveConfig() wrote.
C4_RoundTrip ==
    (op = "getConfig" /\ prevOp = "saveConfig" /\ mockConfig = NoMock)
        => (outcome = "returned" /\ retConfig = config)

\* C4, amended: the round trip holds for every document whose numbers are
\* all within the range of a double (none decodes to Infinity, which
\* saveConfig() writes as null).
C4_RoundTripFinite ==
    (op = "getConfig" /\ prevOp = "saveConfig" /\ mockConfig = NoMock
     /\ AllFinite(config))
        => (outcome = "returned" /\ retConfig = config)

\* A round trip of a Config with a non-default license and an addon, read
\* back from the text that saveConfig() wrote.
C4_Witness ==
    /\ op = "getConfig"
    /\ prevOp = "saveConfig"
    /\ mockConfig = NoMock
    /\ AllFinite(config)
    /\ retRaw = JSONstringify(config)
    /\ retConfig = config
    /\ Get(config, "addons") # Obj(<<>>)
    /\ Get(config, "license") # defaultLicenseConfig

\* C6: the 'Config file not found' warning is emitted at most once per
\* process; it is emitted by the first call that finds no override and no
\* file, and by no other call; every call that finds no override and no file
\* returns the text "{}".
C6_WarnOnce ==
    [][/\ warnings' <= 1
       /\ hasWarnedAboutConfig' = (warnings' = 1)
       /\ (op' \in Calls /\ mockConfig = NoMock /\ ~file.exists) =>
            /\ retRaw' = <<P("{"), P("}")>>
            /\ (CountWarnings(diag') = 1) = ~hasWarnedAboutConfig
            /\ CountWarnings(diag') <= 1
       /\ (op' \in Calls /\ ~(mockConfig = NoMock /\ ~file.exists)) =>
            /\ CountWarnings(diag') = 0
            /\ warnings' = warnings]_vars

\* A second call that finds no override and no file: silent, and "{}".
C6_Witness ==
    /\ op = "rawConfig"
    /\ prevOp \in Calls
    /\ mockConfig = NoMock
    /\ ~file.exists
    /\ warnings = 1
    /\ diag = <<>>
    /\ retRaw = <<P("{"), P("}")>>

\* The number of space characters from i on.
RECURSIVE SpaceRun(_, _)
SpaceRun(toks, i) ==
    IF IsPunct(toks, i, " ") THEN 1 + SpaceRun(toks, i + 1) ELSE 0

IsCloser(toks, i) == IsPunct(toks, i, "}") \/ IsPunct(toks, i, "]")

IsOpener(toks, i) == IsPunct(toks, i, "{") \/ IsPunct(toks, i, "[")

\* The position of the first line break after i, or Len(toks) + 1.
RECURSIVE LineEnd(_, _)
LineEnd(toks, i) ==
    IF i + 1 > Len(toks) \/ IsPunct(toks, i + 1, "\n") THEN i + 1
    ELSE LineEnd(toks, i + 1)

\* The lines from the one that starts after position i (0, or a line break)
\* on are indented by two spaces per level: `depth` is the number of
\* brackets open at i; a line that starts with a closing bracket is indented
\* as the line of its opening bracket.
RECURSIVE IndentedFrom(_, _, _)
IndentedFrom(toks, i, depth) ==
    LET n == SpaceRun(toks, i + 1)
        end == LineEnd(toks, i + n)
        opened == Cardinality({j \in (i + n + 1)..(end - 1) : IsOpener(toks, j)})
        closed == Cardinality({j \in (i + n + 1)..(end - 1) : IsCloser(toks, j)})
    IN /\ i + n + 1 <= Len(toks)
       /\ IF IsCloser(toks, i + n + 1) THEN n + 2 = 2 * depth ELSE n = 2 * depth
       /\ depth + opened >= closed
       /\ end > Len(toks) \/ IndentedFrom(toks, end, (depth + opened) - closed)

\* The layout of a pretty-printed JSON text with two spaces per level: every
\* member and element on a line of its own, indented by twice its nesting
\* depth; a closing bracket on a line of its own at the depth of its opening
\* bracket, unless the brackets are empty; one space after a colon; no other
\* white space.
TwoSpaceIndented(toks) ==
    /\ IndentedFrom(toks, 0, 0)
    /\ \A i \in 1..Len(toks) :
        /\ IsOpener(toks, i) =>
              \/ IsCloser(toks, i + 1)
              \/ IsPunct(toks, i + 1, "\n")
        /\ IsPunct(toks, i, ",") => IsPunct(toks, i + 1, "\n")
        /\ IsPunct(toks, i, ":") =>
              IsPunct(toks, i + 1, " ") /\ ~IsPunct(toks, i + 2, " ")
        /\ IsPunct(toks, i, "\n") =>
              \/ IsOpener(toks, i - 1)
              \/ IsPunct(toks, i - 1, ",")
              \/ IsCloser(toks, i + 1 + SpaceRun(toks, i + 1))
        /\ IsPunct(toks, i, " ") =>
              \/ IsPunct(toks, i - 1, ":")
              \/ IsPunct(toks, i - 1, "\n")
              \/ IsPunct(toks, i - 1, " ")
        /\ IsCloser(toks, i) =>
              \/ IsOpener(toks, i - 1)
              \/ IsPunct(toks, i - 1, "\n")
              \/ IsPunct(toks, i - 1, " ")

\* C9: immediately after saveConfig() the backing file exists and its whole
\* content is the 2-space-indented JSON text of the Config cached at the
\* first resolution, whatever the override, the last getConfig() result and
\* the file's prior content are; saveConfig() leaves the cached Config, the
\* override and the warn-once flag unchanged.
C9_SaveWritesCached ==
    [][op' = "saveConfig" =>
         /\ file' = FileOf(JSONstringify(config))
         /\ TwoSpaceIndented(file'.text)
         /\ LET written == JSONparse(file'.text)
            IN written.ok /\ (AllFinite(config) => written.v = config)
         /\ config' = config
         /\ mockConfig' = mockConfig
         /\ hasWarnedAboutConfig' = hasWarnedAboutConfig]_vars

\* A save while an override is set and the last getConfig() returned another
\* Config than the cached one.
C9_Witness ==
    /\ op = "saveConfig"
    /\ prevOp = "getConfig"
    /\ mockConfig # NoMock
    /\ outcome = "returned"
    /\ retConfig # config
    /\ file = FileOf(JSONstringify(config))
    /\ JSONparse(file.text).v = config
    /\ config # defaultConfig

\* C10, as claimed: once setMockRawConfig(t) was called with a non-empty t,
\* every later rawConfig() call returns an override text without checking
\* the file and without the missing-file warning, whatever setMockRawConfig
\* calls came in between.
C10_OverridePermanent ==
    (op \in {"rawConfig", "getConfig"} /\ everOverride)
        => (retRaw \in MockTexts /\ ~storeChecked /\ CountWarnings(diag) = 0)

\* C10, amended: the override lasts until setMockRawConfig('') removes it.
\* While the override is non-empty, every rawConfig() call returns the text
\* of the most recent setMockRawConfig call without checking the file and
\* without the missing-file warning; with the override empty, rawConfig()
\* checks the file again, also after an override had been set.
C10_OverrideWhileNonEmpty ==
    op \in {"rawConfig", "getConfig"} =>
        /\ mockConfig # NoMock =>
              (retRaw = mockConfig /\ ~storeChecked /\ CountWarnings(diag) = 0)
        /\ mockConfig = NoMock =>
              (storeChecked /\ retRaw = IF file.exists THEN file.text
                                        ELSE <<P("{"), P("}")>>)

\* A rawConfig() call under an override while the file is missing and no
\* warning was ever emitted.
C10_Witness ==
    /\ op = "rawConfig"
    /\ mockConfig \in MockTexts
    /\ retRaw = mockConfig
    /\ ~file.exists
    /\ ~hasWarnedAboutConfig

----------------------------------------------------------------------------
(* Properties of one resolution: specification SpecResolve. *)

\* The last operation was a resolution: retRaw is the text it read.
Resolved == op \in {"load", "getConfig"}

\* The document decoded from the text read (Undef where it is not JSON).
Doc == JSONparse(retRaw).v

Decodes == JSONparse(retRaw).ok

\* version of the document, or of the defaults where the document has none.
MergedVersion ==
    IF ~Nullish(Doc) /\ HasOwn(Doc, "version") THEN Get(Doc, "version")
    ELSE Obj(<<Prop("product", Str("firefox"))>>)

ProductSupported ==
    /\ ~Nullish(MergedVersion)
    /\ Get(MergedVersion, "product") \in
          {Str("firefox"), Str("firefox-esr"), Str("firefox-dev"),
           Str("firefox-beta"), Str("firefox-nightly")}

ProductUnsupported ==
    /\ ~Nullish(Doc)
    /\ ~Nullish(MergedVersion)
    /\ ~ProductSupported

Kinds(d) == {d[i].kind : i \in 1..Len(d)}

\* C2: a text that is not JSON, and a document whose merged version.product
\* is none of the five supported products, end the process with exit code 1:
\* no Config is returned, and no diagnostic of a later step is emitted (no
\* binaryName advisory after a parse failure, no addon error after an invalid
\* product).
C2_FatalStops ==
    Resolved =>
        /\ ~Decodes =>
              /\ outcome = "exit1" /\ pc = "exited" /\ retConfig = Undef
              /\ Kinds(diag) = {"parse", "syntaxError"}
        /\ (Decodes /\ ProductUnsupported) =>
              /\ outcome = "exit1" /\ pc = "exited" /\ retConfig = Undef
              /\ Kinds(diag) \subseteq {"configNotFound", "binaryName", "product"}
              /\ diag[Len(diag)] =
                    Msg("error", "product", Template(Get(MergedVersion, "product")))

\* An unsupported product in a document whose addon has errors of its own.
C2_Witness ==
    /\ op = "load"
    /\ Decodes
    /\ ProductUnsupported
    /\ HasOwn(Doc, "addons")
    /\ Get(Doc, "addons") # Obj(<<>>)
    /\ outcome = "exit1"

\* C3: every text that decodes as JSON and whose merged version.product is
\* supported makes getConfig() return a Config, without ending the process,
\* whatever the entries of `addons` are.
C3_OnlyTwoFatal ==
    (Resolved /\ Decodes /\ ProductSupported)
        => (outcome = "returned" /\ pc = "running" /\ retConfig # Undef)

TopLevelKeys(v) == {OwnKeys(v)[i] : i \in 1..Len(OwnKeys(v))}

\* C5: the default merge is shallow. Every top-level key other than
\* `license` of a returned Config has the document's value where the
\* document has the key, nested records included, and the defaultConfig
\* value otherwise; the Config has no other keys. `{}` resolves to
\* defaultConfig; a document with `name` alone resolves to defaultConfig
\* with that name.
C5_ShallowMerge ==
    (Resolved /\ outcome = "returned") =>
        /\ TopLevelKeys(retConfig) = TopLevelKeys(defaultConfig) \cup TopLevelKeys(Doc)
        /\ \A key \in TopLevelKeys(retConfig) \ {"license"} :
              Get(retConfig, key) = IF HasOwn(Doc, key) THEN Get(Doc, key)
                                    ELSE Get(defaultConfig, key)
        /\ Doc = Obj(<<>>) => retConfig = defaultConfig
        /\ TopLevelKeys(Doc) = {"name"} =>
              retConfig = [defaultConfig EXCEPT !.m[1].v = Get(Doc, "name")]

\* A document that gives one of the two build options: the other one is not
\* filled in from the defaults.
C5_Witness ==
    /\ op = "load"
    /\ outcome = "returned"
    /\ HasOwn(Doc, "name")
    /\ ~HasOwn(Doc, "binaryName")
    /\ Get(Doc, "buildOptions") = Obj(<<Prop("generateBranding", Bool(FALSE))>>)
    /\ Get(retConfig, "buildOptions") = Get(Doc, "buildOptions")
    /\ Get(retConfig, "binaryName") = Str("firefox")

\* The fields an addon of each known platform must have, in checking order.
RequiredFields(platform) ==
    CASE platform = "url" -> <<"url">>
      [] platform = "amo" -> <<"amoId", "version">>
      [] platform = "github" -> <<"repo", "version", "fileGlob">>

\* A field is missing when it is absent or falsy (the empty string).
Missing(addon, field) == Falsy(Get(addon, field))

\* The errors of one addon: its id, then its platform's fields.
ExpectedErrors(addonKey, addon) ==
    LET platform == Get(addon, "platform")
        known == platform.t = "str" /\ platform.s \in {"url", "amo", "github"}
        fields == IF known THEN RequiredFields(platform.s) ELSE <<>>
        lacking == SelectSeq(fields, LAMBDA f : Missing(addon, f))
    IN (IF Missing(addon, "id") THEN <<Msg("error", "id", addonKey)>> ELSE <<>>)
       \o [i \in 1..Len(lacking) |-> Msg("error", lacking[i], addonKey)]
       \o (IF known THEN <<>>
           ELSE <<Msg("error", "unknownPlatform", Template(platform))>>)

RECURSIVE ExpectedFrom(_, _)
ExpectedFrom(addons, i) ==
    IF i > Len(OwnKeys(addons)) THEN <<>>
    ELSE ExpectedErrors(OwnKeys(addons)[i], Get(addons, OwnKeys(addons)[i]))
         \o ExpectedFrom(addons, i + 1)

\* addons of the document, or of the defaults where the document has none.
DocAddons == IF HasOwn(Doc, "addons") THEN Get(Doc, "addons") ELSE Obj(<<>>)

DocLicense ==
    IF HasOwn(Doc, "license") THEN Get(Doc, "license") ELSE Undef

\* C8: the license of every returned Config is complete: licenseType and
\* ignoredFiles are present, with the value of the document's license where
\* it supplies the sub-field, and 'MPL-2.0' and the single pattern for JSON
\* files otherwise.
C8_LicenseComplete ==
    (Resolved /\ outcome = "returned") =>
        LET license == Get(retConfig, "license")
        IN /\ HasOwn(license, "licenseType")
           /\ HasOwn(license, "ignoredFiles")
           /\ Get(license, "licenseType") =
                 IF HasOwn(DocLicense, "licenseType")
                 THEN Get(DocLicense, "licenseType") ELSE Str("MPL-2.0")
           /\ Get(license, "ignoredFiles") =
                 IF HasOwn(DocLicense, "ignoredFiles")
                 THEN Get(DocLicense, "ignoredFiles") ELSE Arr(<<Str(".*\\.json")>>)

\* A document whose license gives licenseType alone.
C8_Witness ==
    /\ op = "load"
    /\ outcome = "returned"
    /\ DocLicense = Obj(<<Prop("licenseType", Str("unknown"))>>)
    /\ Get(retConfig, "license") =
          Obj(<<Prop("ignoredFiles", Arr(<<Str(".*\\.json")>>)),
                Prop("licenseType", Str("unknown"))>>)

====
